---- MODULE Spec2Model ----
(***************************************************************************)
(* Cardigan Dashboard shell (shared/shell.js): the two-key shortcut        *)
(* matcher, the shortcuts dialog, the accessibility preferences            *)
(* (localStorage record and its projection on the document root), the      *)
(* navigation resolver, the branding loader and the preferences panel.     *)
(*                                                                         *)
(* JavaScript strings are sequences of one-character strings, so that      *)
(* concatenation, startsWith, toLowerCase and the /^\// replace are        *)
(* computed and not assumed.  null is the value NULL.                      *)
(***************************************************************************)
EXTENDS Naturals, Sequences, FiniteSets, TLC

VARIABLES
    pendingKey,     \* shell.js:63  first token awaiting its second, or NULL
    pendingTimer,   \* shell.js:64  handle of the last setTimeout, or 0 (null)
    timers,         \* the host's outstanding timeouts: records [id, delay]
    timerSeq,       \* the host's last issued timer id
    dialog,         \* #shell-shortcuts-dialog: "absent", "closed" or "open"
    readyState,     \* document.readyState: "loading" or "interactive"
    location,       \* window.location.href
    log,            \* history: one entry per turn of the event loop
    SITE_ROOT,      \* shell.js:32
    storage,        \* localStorage item PREFS_KEY: Missing or a stored text
    root,           \* document.documentElement: [scale, highContrast]
    scaleSelect,    \* #shell-text-scale .value
    contrastToggle, \* #shell-high-contrast .checked
    connected,      \* <shell-header> connectedCallback has run
    plog,           \* history: one entry per preference operation
    resolved,       \* history: the last resolveHref call [href, result, root]
    branding,       \* loadBranding: [phase, outcome] of the one-shot fetch
    style,          \* what branding overrides: [primary, primaryHover, logoText]
    panelHidden,    \* #shell-prefs-panel .hidden
    ariaExpanded,   \* #shell-prefs-btn aria-expanded
    panelLog        \* history: one entry per event the panel's listeners saw

vars == <<pendingKey, pendingTimer, timers, timerSeq, dialog, readyState,
          location, log, SITE_ROOT, storage, root, scaleSelect,
          contrastToggle, connected, plog, resolved, branding, style,
          panelHidden, ariaExpanded, panelLog>>

keyVars == <<pendingKey, pendingTimer, timers, timerSeq, dialog, readyState,
             location, log>>

prefVars == <<storage, root, scaleSelect, contrastToggle, connected, plog>>

brandVars == <<branding, style>>

panelVars == <<panelHidden, ariaExpanded, panelLog>>

(***************************************************************************)
(* Bounds                                                                  *)
(***************************************************************************)
\* turns of the event loop recorded per behaviour of the matcher
MaxTurns == 3
\* preference operations recorded per behaviour
MaxOps == 3
\* length of the logical paths given to resolveHref
MaxPathLen == 3

(***************************************************************************)
(* Strings                                                                 *)
(***************************************************************************)
NULL == <<"<null>">>

\* JS truthiness of a string-or-null value: null and "" are falsy
Truthy(s) == s # NULL /\ s # <<>>

LowerChar(c) ==
    CASE c = "G" -> "g"
      [] c = "H" -> "h"
      [] c = "E" -> "e"
      [] c = "X" -> "x"
      [] c = "I" -> "i"
      [] c = "N" -> "n"
      [] c = "P" -> "p"
      [] c = "U" -> "u"
      [] c = "T" -> "t"
      [] c = "A" -> "a"
      [] c = "R" -> "r"
      [] c = "S" -> "s"
      [] c = "L" -> "l"
      [] c = "C" -> "c"
      [] c = "B" -> "b"
      [] c = "O" -> "o"
      [] c = "D" -> "d"
      [] c = "Y" -> "y"
      [] c = "V" -> "v"
      [] OTHER -> c

toLowerCase(s) == [i \in 1..Len(s) |-> LowerChar(s[i])]

startsWith(s, p) == Len(p) <= Len(s) /\ SubSeq(s, 1, Len(p)) = p

(***************************************************************************)
(* Navigation resolver                                                     *)
(***************************************************************************)
NAV_ITEMS == <<
    [id |-> "home",         href |-> <<"/">>],
    [id |-> "example-tool",
     href |-> <<"/","e","x","a","m","p","l","e","-","t","o","o","l","/">>] >>

\* index of the last "/" of s at or before position n, 0 if none
RECURSIVE LastSlash(_, _)
LastSlash(s, n) ==
    IF n = 0 THEN 0
    ELSE IF s[n] = "/" THEN n ELSE LastSlash(s, n - 1)

\* new URL('..', url).href for a hierarchical url whose path starts at
\* position pathStart: drop the file name, then one directory, never above
\* the path's own leading "/"
ParentOfDir(url, pathStart) ==
    LET dirEnd == LastSlash(url, Len(url))
        upEnd  == LastSlash(url, dirEnd - 1)
    IN  IF upEnd < pathStart THEN SubSeq(url, 1, pathStart)
        ELSE SubSeq(url, 1, upEnd)

\* a bug: /^\/+/ in place of /^\//
RECURSIVE StripSlashes(_)
StripSlashes(s) == IF s # <<>> /\ Head(s) = "/" THEN StripSlashes(Tail(s)) ELSE s

resolveHref_StripAll(href) ==
    IF href = <<"/">> THEN SITE_ROOT ELSE SITE_ROOT \o StripSlashes(href)

resolveHref(href) ==
    IF href = <<"/">> THEN SITE_ROOT
    ELSE SITE_ROOT \o (IF href # <<>> /\ Head(href) = "/" THEN Tail(href) ELSE href)

(***************************************************************************)
(* Keyboard shortcuts                                                      *)
(***************************************************************************)
SHORTCUTS == <<
    [keys |-> <<"g", " ", "h">>, action |-> "home"],
    [keys |-> <<"g", " ", "e">>, action |-> "example-tool"],
    [keys |-> <<"?">>,           action |-> "toggle"] >>

\* Array.prototype.find: index of the first entry whose keys === k, 0 if none
FindShortcut(k) ==
    IF \E i \in 1..Len(SHORTCUTS) : SHORTCUTS[i].keys = k
    THEN CHOOSE i \in 1..Len(SHORTCUTS) :
            /\ SHORTCUTS[i].keys = k
            /\ \A j \in 1..(i - 1) : SHORTCUTS[j].keys # k
    ELSE 0

\* a bug: every key is taken for a prefix
couldBePrefix_Any(key) == TRUE

couldBePrefix(key) ==
    \E i \in 1..Len(SHORTCUTS) : startsWith(SHORTCUTS[i].keys, key \o <<" ">>)

\* window.location.href after navigateTo(id); the listeners of the page go on
\* running until the browser unloads it
navigateTo(id, loc) ==
    IF \E i \in 1..Len(NAV_ITEMS) : NAV_ITEMS[i].id = id
    THEN resolveHref(
            NAV_ITEMS[CHOOSE i \in 1..Len(NAV_ITEMS) :
                        /\ NAV_ITEMS[i].id = id
                        /\ \A j \in 1..(i - 1) : NAV_ITEMS[j].id # id].href)
    ELSE loc

\* a bug: a missing dialog is taken for a closed one
toggleShortcutsModal_NoGuard(d) ==
    IF d = "open" THEN "closed" ELSE "open"

\* a bug: the toggle only ever opens
toggleShortcutsModal_OpenOnly(d) ==
    IF d = "absent" THEN d ELSE "open"

\* the dialog after toggleShortcutsModal()
toggleShortcutsModal(d) ==
    IF d = "absent" THEN d
    ELSE IF d = "open" THEN "closed" ELSE "open"

\* the page after a shortcut's action ran: [location, dialog]
RunAction(a, page) ==
    CASE a = "home"         -> [page EXCEPT !.location = navigateTo("home", page.location)]
      [] a = "example-tool" -> [page EXCEPT !.location = navigateTo("example-tool", page.location)]
      [] a = "toggle"       -> [page EXCEPT !.dialog = toggleShortcutsModal(page.dialog)]

\* document.activeElement: NoElement (null) or [tagName, isContentEditable]
NoElement == [tagName |-> NULL, isContentEditable |-> FALSE]

\* a bug: select is forgotten
isInputFocused_NoSelect(el) ==
    IF el = NoElement THEN FALSE
    ELSE LET tag == toLowerCase(el.tagName)
         IN  tag = <<"i","n","p","u","t">>
             \/ tag = <<"t","e","x","t","a","r","e","a">>
             \/ el.isContentEditable

isInputFocused(el) ==
    IF el = NoElement THEN FALSE
    ELSE LET tag == toLowerCase(el.tagName)
         IN  IF tag = <<"i","n","p","u","t">>
                \/ tag = <<"t","e","x","t","a","r","e","a">>
                \/ tag = <<"s","e","l","e","c","t">> THEN TRUE
             ELSE IF el.isContentEditable THEN TRUE
             ELSE FALSE

\* a bug: Alt is forgotten
modifierHeld_NoAlt(e) == e.ctrlKey \/ e.metaKey

modifierHeld(e) == e.ctrlKey \/ e.metaKey \/ e.altKey

PendingTimeoutMs == 800

\* the matcher's part of the state
Matcher == [pendingKey |-> pendingKey, pendingTimer |-> pendingTimer,
            timers |-> timers, timerSeq |-> timerSeq]

Page == [location |-> location, dialog |-> dialog]

clearTimeout(ts, id) == {t \in ts : t.id # id}

\* a bug: the pending token is not reset after the match attempt
PendingBranch_KeepsToken(m, key) ==
    IF Truthy(m.pendingKey)
    THEN [m |-> [m EXCEPT !.timers = clearTimeout(m.timers, m.pendingTimer)],
          shortcut |-> FindShortcut(m.pendingKey \o <<" ">> \o key)]
    ELSE [m |-> m, shortcut |-> 0]

\* a bug: the outstanding timer is not cancelled by the match attempt
PendingBranch_KeepsTimer(m, key) ==
    IF Truthy(m.pendingKey)
    THEN [m |-> [m EXCEPT !.pendingKey = NULL],
          shortcut |-> FindShortcut(m.pendingKey \o <<" ">> \o key)]
    ELSE [m |-> m, shortcut |-> 0]

\* lines 81-92: a token is pending
PendingBranch(m, key) ==
    IF Truthy(m.pendingKey)
    THEN [m |-> [m EXCEPT !.timers = clearTimeout(m.timers, m.pendingTimer),
                          !.pendingKey = NULL],
          shortcut |-> FindShortcut(m.pendingKey \o <<" ">> \o key)]
    ELSE [m |-> m, shortcut |-> 0]

\* lines 101-105: the key may start a two-key sequence
PrefixBranch(m, key) ==
    IF couldBePrefix(key)
    THEN [m EXCEPT !.pendingKey = key,
                   !.pendingTimer = m.timerSeq + 1,
                   !.timerSeq = m.timerSeq + 1,
                   !.timers = m.timers \cup
                       {[id |-> m.timerSeq + 1, delay |-> PendingTimeoutMs]}]
    ELSE m

\* a bug: a key that only starts a sequence is suppressed too
OnKeydown_SuppressesPrefix(e, el, m, page) ==
    IF isInputFocused(el) \/ modifierHeld(e)
    THEN [m |-> m, page |-> page, defaultPrevented |-> FALSE, actions |-> <<>>]
    ELSE
      LET key    == toLowerCase(e.key)
          pb     == PendingBranch(m, key)
          single == FindShortcut(key)
          found  == IF pb.shortcut # 0 THEN pb.shortcut ELSE single
      IN  IF found # 0
          THEN [m |-> pb.m,
                page |-> RunAction(SHORTCUTS[found].action, page),
                defaultPrevented |-> TRUE,
                actions |-> <<SHORTCUTS[found].action>>]
          ELSE [m |-> PrefixBranch(pb.m, key), page |-> page,
                defaultPrevented |-> couldBePrefix(key), actions |-> <<>>]

\* a bug: after a failed pair the key is not looked up as a single shortcut
OnKeydown_NoSingleAfterPair(e, el, m, page) ==
    IF isInputFocused(el) \/ modifierHeld(e)
    THEN [m |-> m, page |-> page, defaultPrevented |-> FALSE, actions |-> <<>>]
    ELSE
      LET key    == toLowerCase(e.key)
          pb     == PendingBranch(m, key)
          single == IF Truthy(m.pendingKey) THEN 0 ELSE FindShortcut(key)
          found  == IF pb.shortcut # 0 THEN pb.shortcut ELSE single
      IN  IF found # 0
          THEN [m |-> pb.m,
                page |-> RunAction(SHORTCUTS[found].action, page),
                defaultPrevented |-> TRUE,
                actions |-> <<SHORTCUTS[found].action>>]
          ELSE [m |-> PrefixBranch(pb.m, key), page |-> page,
                defaultPrevented |-> FALSE, actions |-> <<>>]

\* a bug: after a failed pair the key is not tried as a prefix
OnKeydown_NoPrefixAfterPair(e, el, m, page) ==
    IF isInputFocused(el) \/ modifierHeld(e)
    THEN [m |-> m, page |-> page, defaultPrevented |-> FALSE, actions |-> <<>>]
    ELSE
      LET key    == toLowerCase(e.key)
          pb     == PendingBranch(m, key)
          single == FindShortcut(key)
          found  == IF pb.shortcut # 0 THEN pb.shortcut ELSE single
      IN  IF found # 0
          THEN [m |-> pb.m,
                page |-> RunAction(SHORTCUTS[found].action, page),
                defaultPrevented |-> TRUE,
                actions |-> <<SHORTCUTS[found].action>>]
          ELSE [m |-> IF Truthy(m.pendingKey) THEN pb.m ELSE PrefixBranch(pb.m, key),
                page |-> page,
                defaultPrevented |-> FALSE, actions |-> <<>>]

\* the keydown listener, lines 75-106:
\* [m: matcher after, page: page after, defaultPrevented, actions]
OnKeydown(e, el, m, page) ==
    LET untouched == [m |-> m, page |-> page, defaultPrevented |-> FALSE,
                      actions |-> <<>>]
    IN
    IF isInputFocused(el) THEN untouched
    ELSE IF modifierHeld(e) THEN untouched
    ELSE
      LET key    == toLowerCase(e.key)
          pb     == PendingBranch(m, key)
          single == FindShortcut(key)
      IN  IF pb.shortcut # 0
          THEN [m |-> pb.m,
                page |-> RunAction(SHORTCUTS[pb.shortcut].action, page),
                defaultPrevented |-> TRUE,
                actions |-> <<SHORTCUTS[pb.shortcut].action>>]
          ELSE IF single # 0
          THEN [m |-> pb.m,
                page |-> RunAction(SHORTCUTS[single].action, page),
                defaultPrevented |-> TRUE,
                actions |-> <<SHORTCUTS[single].action>>]
          ELSE [m |-> PrefixBranch(pb.m, key), page |-> page,
                defaultPrevented |-> FALSE, actions |-> <<>>]

\* a bug: the callback forgets to discard the token
OnTimeout_KeepsToken(m, id) ==
    [m EXCEPT !.timers = clearTimeout(m.timers, id)]

\* the setTimeout callback, line 104
OnTimeout(m, id) ==
    [m EXCEPT !.pendingKey = NULL, !.timers = clearTimeout(m.timers, id)]

(***************************************************************************)
(* Inputs of the matcher                                                   *)
(***************************************************************************)
Body     == [tagName |-> <<"B","O","D","Y">>, isContentEditable |-> FALSE]
Button   == [tagName |-> <<"B","U","T","T","O","N">>, isContentEditable |-> FALSE]
Input    == [tagName |-> <<"I","N","P","U","T">>, isContentEditable |-> FALSE]
Textarea == [tagName |-> <<"T","E","X","T","A","R","E","A">>, isContentEditable |-> FALSE]
Select   == [tagName |-> <<"S","E","L","E","C","T">>, isContentEditable |-> FALSE]
Editable == [tagName |-> <<"D","I","V">>, isContentEditable |-> TRUE]

Plain(k) == [key |-> k, ctrlKey |-> FALSE, metaKey |-> FALSE,
             altKey |-> FALSE, shiftKey |-> FALSE]

RegisteredTokens == {<<"g">>, <<"h">>, <<"e">>, <<"?">>}

\* the keydowns fed to the listener: <<event, document.activeElement>>
Keydowns ==
    \* any key, nothing held, focus on the page
    {<<Plain(k), Body>> : k \in RegisteredTokens \cup {<<"x">>, <<"G">>}}
    \* Shift held: the usual way to type "?"
    \cup {<<[Plain(<<"?">>) EXCEPT !.shiftKey = TRUE], Body>>}
    \* Ctrl, Meta or Alt held
    \cup {<<[Plain(k) EXCEPT !.ctrlKey = TRUE], Body>> : k \in {<<"g">>, <<"h">>}}
    \cup {<<[Plain(<<"?">>) EXCEPT !.metaKey = TRUE], Body>>,
          <<[Plain(<<"h">>) EXCEPT !.altKey = TRUE], Body>>}
    \* focus on a control, or nowhere
    \cup {<<Plain(k), Input>> : k \in RegisteredTokens}
    \cup {<<Plain(k), el>> : k \in {<<"g">>, <<"h">>}, el \in {Textarea, Editable}}
    \cup {<<Plain(k), Select>> : k \in {<<"?">>, <<"e">>}}
    \cup {<<Plain(<<"g">>), NoElement>>, <<Plain(<<"?">>), Button>>}

NoEvent == Plain(<<>>)

LogEntry(type, e, el, before, after, pageBefore, pageAfter, prevented, actions) ==
    [type |-> type, e |-> e, el |-> el, before |-> before, after |-> after,
     dialogBefore |-> pageBefore.dialog, dialogAfter |-> pageAfter.dialog,
     defaultPrevented |-> prevented, actions |-> actions]

(***************************************************************************)
(* Turns of the event loop                                                 *)
(***************************************************************************)
SetMatcher(m) ==
    /\ pendingKey' = m.pendingKey
    /\ pendingTimer' = m.pendingTimer
    /\ timers' = m.timers
    /\ timerSeq' = m.timerSeq

\* one keydown reaches the listener
KeydownTurn(in) ==
    LET r == OnKeydown(in[1], in[2], Matcher, Page)
    IN  /\ Len(log) < MaxTurns
        /\ SetMatcher(r.m)
        /\ location' = r.page.location
        /\ dialog' = r.page.dialog
        /\ log' = Append(log, LogEntry("keydown", in[1], in[2], Matcher, r.m,
                                       Page, r.page, r.defaultPrevented, r.actions))
        /\ UNCHANGED <<readyState, SITE_ROOT, brandVars, panelVars, prefVars, resolved>>

Keydown == \E in \in Keydowns : KeydownTurn(in)

Timeout ==
    \E t \in timers :
        LET m == OnTimeout(Matcher, t.id)
        IN  /\ Len(log) < MaxTurns
            /\ SetMatcher(m)
            /\ log' = Append(log, LogEntry("timeout", NoEvent, NoElement, Matcher, m,
                                           Page, Page, FALSE, <<>>))
            /\ UNCHANGED <<dialog, readyState, location, SITE_ROOT, brandVars, panelVars, prefVars, resolved>>

\* lines 308-341: the dialog is created once the document is parsed
createShortcutsDialog(d) == IF d # "absent" THEN d ELSE "closed"

DOMContentLoaded ==
    /\ Len(log) < MaxTurns
    /\ readyState = "loading"
    /\ readyState' = "interactive"
    /\ dialog' = createShortcutsDialog(dialog)
    /\ log' = Append(log, LogEntry("DOMContentLoaded", NoEvent, NoElement, Matcher, Matcher,
                                   Page, [Page EXCEPT !.dialog = dialog'], FALSE, <<>>))
    /\ UNCHANGED <<pendingKey, pendingTimer, timers, timerSeq, location,
                   SITE_ROOT, brandVars, panelVars, prefVars, resolved>>

\* lines 326-334: the Close button, a click on the backdrop
DialogClose ==
    /\ Len(log) < MaxTurns
    /\ dialog = "open"
    /\ dialog' = "closed"
    /\ log' = Append(log, LogEntry("dialogClose", NoEvent, NoElement, Matcher, Matcher,
                                   Page, [Page EXCEPT !.dialog = "closed"], FALSE, <<>>))
    /\ UNCHANGED <<pendingKey, pendingTimer, timers, timerSeq, readyState, location,
                   SITE_ROOT, brandVars, panelVars, prefVars, resolved>>

(***************************************************************************)
(* A11y preferences                                                        *)
(***************************************************************************)
DEFAULT == <<"d","e","f","a","u","l","t">>
LARGE   == <<"l","a","r","g","e">>
LARGER  == <<"l","a","r","g","e","r">>

\* a primitive JS value held by a field: [t, s, b]; t = "absent" when the
\* object has no such property
Absent  == [t |-> "absent",  s |-> <<>>, b |-> FALSE]
Str(s)  == [t |-> "string",  s |-> s,    b |-> FALSE]
Num(s)  == [t |-> "number",  s |-> s,    b |-> FALSE]
Bool(b) == [t |-> "boolean", s |-> <<>>, b |-> b]

NoFields == [textScale |-> Absent, highContrast |-> Absent]

\* a JS value as JSON.parse returns it: a primitive, an array or an object
\* with the two fields of the record
Prim(p)     == [t |-> p.t, s |-> p.s, b |-> p.b, f |-> NoFields]
JsNull      == [t |-> "null",   s |-> <<>>, b |-> FALSE, f |-> NoFields]
Arr         == [t |-> "array",  s |-> <<>>, b |-> FALSE, f |-> NoFields]
Obj(ts, hc) == [t |-> "object", s |-> <<>>, b |-> FALSE,
                f |-> [textScale |-> ts, highContrast |-> hc]]

\* the stored item: missing (getItem returns null), text that is not JSON,
\* or the JSON text of a value
Missing   == [kind |-> "missing", v |-> JsNull]
Garbage   == [kind |-> "garbage", v |-> JsNull]
JsonOf(v) == [kind |-> "json", v |-> v]

\* ToBoolean
truthy(v) ==
    CASE v.t \in {"absent", "null"} -> FALSE
      [] v.t = "boolean" -> v.b
      [] v.t = "number"  -> v.s # <<"0">>
      [] v.t = "string"  -> v.s # <<>>
      [] OTHER -> TRUE

\* ToString of a primitive, as setAttribute and select.value apply it
JsString(p) ==
    CASE p.t = "string"  -> p.s
      [] p.t = "number"  -> p.s
      [] p.t = "boolean" -> (IF p.b THEN <<"t","r","u","e">> ELSE <<"f","a","l","s","e">>)
      [] p.t = "null"    -> <<"n","u","l","l">>
      [] OTHER           -> <<"u","n","d","e","f","i","n","e","d">>

\* JSON.parse(localStorage.getItem(PREFS_KEY)): [threw, v]
\* getItem's null is converted to the text "null", which parses to null
JSONparse(text) ==
    CASE text.kind = "missing" -> [threw |-> FALSE, v |-> JsNull]
      [] text.kind = "garbage" -> [threw |-> TRUE,  v |-> JsNull]
      [] OTHER                 -> [threw |-> FALSE, v |-> text.v]

\* JSON.stringify: own enumerable properties of an object; an array keeps
\* its elements only, not the properties set on it
JSONstringify(v) ==
    IF v.t = "array" THEN JsonOf(Arr) ELSE JsonOf(v)

\* a bug: the fallback is returned whatever was stored
loadPrefs_AlwaysEmpty(text) == Obj(Absent, Absent)

\* lines 111-117
loadPrefs(text) ==
    LET r == JSONparse(text)
    IN  IF r.threw THEN Obj(Absent, Absent)
        ELSE IF truthy(r.v) THEN r.v
        ELSE Obj(Absent, Absent)

\* lines 119-121: the stored item after savePrefs(prefs)
savePrefs(prefs) == JSONstringify(prefs)

\* prefs.<name>: undefined on anything that has no such own property
GetField(v, name) == v.f[name]

\* p.<name> = x in a module (strict mode): [threw, v]; creating a property on
\* a primitive throws a TypeError
SetField(v, name, x) ==
    IF v.t \in {"object", "array"}
    THEN [threw |-> FALSE, v |-> [v EXCEPT !.f[name] = x]]
    ELSE [threw |-> TRUE, v |-> v]

\* a bug: classList.toggle in place of add / remove
applyPrefs_Toggle(text, r) ==
    LET prefs == loadPrefs(text)
        ts    == GetField(prefs, "textScale")
    IN  [scale |-> IF truthy(ts) /\ ts # Str(DEFAULT) THEN JsString(ts) ELSE NULL,
         highContrast |-> IF truthy(GetField(prefs, "highContrast"))
                          THEN ~r.highContrast ELSE FALSE]

\* lines 123-137: the document root after applyPrefs()
applyPrefs(text, r) ==
    LET prefs == loadPrefs(text)
        ts    == GetField(prefs, "textScale")
    IN  [scale |-> IF truthy(ts) /\ ts # Str(DEFAULT) THEN JsString(ts) ELSE NULL,
         highContrast |-> IF truthy(GetField(prefs, "highContrast"))
                          THEN TRUE ELSE FALSE]

ScaleOptions == {DEFAULT, LARGE, LARGER}

\* select.value = x: the option with that value is selected, or none ("")
SelectValue(x) == IF x \in ScaleOptions THEN x ELSE <<>>

\* lines 236 and 246: the controls after _setupPrefs()
SetupScale(text) ==
    LET ts == GetField(loadPrefs(text), "textScale")
    IN  SelectValue(IF truthy(ts) THEN JsString(ts) ELSE DEFAULT)

SetupContrast(text) == truthy(GetField(loadPrefs(text), "highContrast"))

\* lines 237-252: a change listener, [threw, storage, root]
OnChange(name, x, text, r) ==
    LET p == SetField(loadPrefs(text), name, x)
    IN  IF p.threw THEN [threw |-> TRUE, storage |-> text, root |-> r]
        ELSE [threw |-> FALSE, storage |-> savePrefs(p.v),
              root |-> applyPrefs(savePrefs(p.v), r)]

(***************************************************************************)
(* Preference operations                                                   *)
(***************************************************************************)
PrefEntry(op, arg, threw, textAfter, rootAfter, result) ==
    [op |-> op, arg |-> arg, threw |-> threw,
     storageBefore |-> storage, storageAfter |-> textAfter,
     rootBefore |-> root, rootAfter |-> rootAfter, result |-> result]

\* line 139 and lines 226, 230-254: the module is evaluated, the header is
\* connected
PageLoad ==
    /\ ~connected
    /\ connected' = TRUE
    /\ root' = applyPrefs(storage, root)
    /\ scaleSelect' = SetupScale(storage)
    /\ contrastToggle' = SetupContrast(storage)
    /\ plog' = Append(plog, PrefEntry("pageLoad", Absent, FALSE, storage, root', JsNull))
    /\ UNCHANGED <<storage, keyVars, SITE_ROOT, brandVars, panelVars, resolved>>

\* the user picks another text size
ChangeScale ==
    \E x \in ScaleOptions \ {scaleSelect} :
        LET r == OnChange("textScale", Str(x), storage, root)
        IN  /\ connected
            /\ Len(plog) <= MaxOps
            /\ scaleSelect' = x
            /\ storage' = r.storage
            /\ root' = r.root
            /\ plog' = Append(plog, PrefEntry("changeScale", Str(x), r.threw,
                                              r.storage, r.root, JsNull))
            /\ UNCHANGED <<contrastToggle, connected, keyVars, SITE_ROOT, brandVars, panelVars, resolved>>

\* the user flips the high-contrast checkbox
ChangeContrast ==
    LET x == ~contrastToggle
        r == OnChange("highContrast", Bool(x), storage, root)
    IN  /\ connected
        /\ Len(plog) <= MaxOps
        /\ contrastToggle' = x
        /\ storage' = r.storage
        /\ root' = r.root
        /\ plog' = Append(plog, PrefEntry("changeContrast", Bool(x), r.threw,
                                          r.storage, r.root, JsNull))
        /\ UNCHANGED <<scaleSelect, connected, keyVars, SITE_ROOT, brandVars, panelVars, resolved>>

\* the records handed to savePrefs directly
SavedRecords ==
    {Obj(Str(LARGE), Absent), Obj(Absent, Bool(TRUE)),
     Obj(Str(DEFAULT), Bool(FALSE)), Obj(Absent, Absent)}

CallSave ==
    \E rec \in SavedRecords :
        /\ connected
        /\ Len(plog) <= MaxOps
        /\ storage' = savePrefs(rec)
        /\ plog' = Append(plog, PrefEntry("save", Absent, FALSE, storage', root, rec))
        /\ UNCHANGED <<root, scaleSelect, contrastToggle, connected, keyVars,
                       SITE_ROOT, brandVars, panelVars, resolved>>

CallLoad ==
    /\ connected
    /\ Len(plog) <= MaxOps
    /\ plog' = Append(plog, PrefEntry("load", Absent, FALSE, storage, root,
                                      loadPrefs(storage)))
    /\ UNCHANGED <<storage, root, scaleSelect, contrastToggle, connected, keyVars,
                   SITE_ROOT, brandVars, panelVars, resolved>>

CallApply ==
    /\ connected
    /\ Len(plog) <= MaxOps
    /\ root' = applyPrefs(storage, root)
    /\ plog' = Append(plog, PrefEntry("apply", Absent, FALSE, storage, root', JsNull))
    /\ UNCHANGED <<storage, scaleSelect, contrastToggle, connected, keyVars,
                   SITE_ROOT, brandVars, panelVars, resolved>>

\* what the item may hold when the page loads
StoredTexts ==
    {Missing, Garbage, JsonOf(JsNull), JsonOf(Prim(Num(<<"1">>))),
     JsonOf(Prim(Str(<<"x">>))), JsonOf(Prim(Bool(TRUE))), JsonOf(Arr),
     JsonOf(Obj(Absent, Absent)),
     JsonOf(Obj(Str(LARGE), Absent)),
     JsonOf(Obj(Str(DEFAULT), Absent)),
     JsonOf(Obj(Absent, Bool(TRUE))),
     JsonOf(Obj(Absent, Bool(FALSE))),
     JsonOf(Obj(Str(LARGER), Bool(TRUE))),
     JsonOf(Obj(Str(<<"h","u","g","e">>), Str(<<"n","o">>)))}

\* what the served page may carry on its root element
RootStates ==
    [scale : {NULL, LARGE}, highContrast : BOOLEAN]

(***************************************************************************)
(* Branding loader                                                         *)
(***************************************************************************)
\* line 173: the header's logo text
LogoText == <<"C","a","r","d","i","g","a","n"," ","D","a","s","h","b","o","a","r","d">>

\* the body of branding.json: text that is not JSON, the JSON null, or a JSON
\* object with the three optional fields
BrandingFile(kind, a, p, h) ==
    [kind |-> kind, appName |-> a, primaryColor |-> p, primaryHoverColor |-> h]

NoFile == BrandingFile("none", Absent, Absent, Absent)

\* a bug: the fields are tested for being defined, not for being truthy
ApplyBranding_IfDefined(file, st) ==
    IF file.kind # "object" THEN st
    ELSE LET s1 == IF file.primaryColor # Absent
                   THEN [st EXCEPT !.primary = JsString(file.primaryColor)] ELSE st
             s2 == IF file.primaryHoverColor # Absent
                   THEN [s1 EXCEPT !.primaryHover = JsString(file.primaryHoverColor)]
                   ELSE s1
         IN  IF file.appName # Absent /\ s2.logoText # NULL
             THEN [s2 EXCEPT !.logoText = JsString(file.appName)] ELSE s2

\* lines 350-357, after res.json() settled: the presentation state.  Invalid
\* JSON rejects and a null body throws on the first property read; both end
\* in the catch of line 358
ApplyBranding(file, st) ==
    IF file.kind # "object" THEN st
    ELSE LET s1 == IF truthy(file.primaryColor)
                   THEN [st EXCEPT !.primary = JsString(file.primaryColor)] ELSE st
             s2 == IF truthy(file.primaryHoverColor)
                   THEN [s1 EXCEPT !.primaryHover = JsString(file.primaryHoverColor)]
                   ELSE s1
         IN  IF truthy(file.appName)
             THEN (IF s2.logoText # NULL
                   THEN [s2 EXCEPT !.logoText = JsString(file.appName)] ELSE s2)
             ELSE s2

AppName    == <<"M","y">>
ColorA     == <<"#","a">>
ColorB     == <<"#","b">>

\* the bodies served for branding.json
BrandingFiles ==
    {BrandingFile("invalid", Absent, Absent, Absent),
     BrandingFile("null", Absent, Absent, Absent),
     BrandingFile("object", Absent, Absent, Absent),
     BrandingFile("object", Str(AppName), Str(ColorA), Str(ColorB)),
     BrandingFile("object", Str(AppName), Absent, Absent),
     BrandingFile("object", Absent, Str(ColorA), Absent),
     BrandingFile("object", Absent, Absent, Str(ColorB)),
     BrandingFile("object", Str(<<>>), Str(ColorA), Absent),
     BrandingFile("object", Absent, Str(<<>>), Str(<<>>))}

\* line 348-349: fetch settles: it rejects, or resolves with res.ok or not
FetchSettles ==
    \E o \in {"networkError", "notOk", "ok"} :
        /\ branding.phase = "pending"
        /\ branding' = [phase |-> IF o = "ok" THEN "response" ELSE "done",
                        outcome |-> o, file |-> NoFile]
        /\ UNCHANGED <<keyVars, prefVars, SITE_ROOT, resolved, style, panelVars>>

\* lines 350-360: res.json() settles
JsonSettles ==
    \E f \in BrandingFiles :
        /\ branding.phase = "response"
        /\ branding' = [phase |-> "done", outcome |-> "ok", file |-> f]
        /\ style' = ApplyBranding(f, style)
        /\ UNCHANGED <<keyVars, prefVars, SITE_ROOT, resolved, panelVars>>

\* the keydowns that race the fetch
BrandKeydowns == {<<Plain(k), Body>> : k \in {<<"g">>, <<"h">>, <<"?">>}}

\* events that race the fetch, per behaviour
MaxRacing == 3

(***************************************************************************)
(* Preferences panel                                                       *)
(***************************************************************************)
\* clicks and keys the panel's listeners are fed per behaviour
MaxPanelEvents == 3

\* String(b)
StringOfBool(b) == IF b THEN <<"t","r","u","e">> ELSE <<"f","a","l","s","e">>

\* the panel's part of the state
Panel == [hidden |-> panelHidden, ariaExpanded |-> ariaExpanded]

PanelClosed == [hidden |-> TRUE, ariaExpanded |-> <<"f","a","l","s","e">>]

\* where a click may land: the button, the panel itself, a control inside the
\* panel, or the rest of the page
ClickTargets == {"btn", "panel", "panelControl", "page"}

\* panel.contains(target)
PanelContains(target) == target \in {"panel", "panelControl"}

\* a bug: aria-expanded is given the state before the click
OnButtonClick_StaleAria(p) ==
    LET isOpen == ~p.hidden
    IN  [hidden |-> isOpen, ariaExpanded |-> StringOfBool(isOpen)]

\* lines 261-266: the button's click listener
OnButtonClick(p) ==
    LET isOpen == ~p.hidden
    IN  [hidden |-> isOpen, ariaExpanded |-> StringOfBool(~isOpen)]

\* lines 268-273: the document's click listener
OnDocumentClick(p, target) ==
    IF ~p.hidden /\ ~PanelContains(target) /\ target # "btn"
    THEN PanelClosed
    ELSE p

Escape == <<"E","s","c","a","p","e">>

\* lines 275-281: the document's keydown listener of the panel
OnPanelKeydown(p, e) ==
    IF e.key = Escape /\ ~p.hidden THEN PanelClosed ELSE p

PanelEntry(type, target, e, after) ==
    [type |-> type, target |-> target, e |-> e,
     hiddenBefore |-> panelHidden, hiddenAfter |-> after.hidden,
     ariaBefore |-> ariaExpanded, ariaAfter |-> after.ariaExpanded]

SetPanel(type, target, e, after) ==
    /\ Len(panelLog) < MaxPanelEvents
    /\ panelHidden' = after.hidden
    /\ ariaExpanded' = after.ariaExpanded
    /\ panelLog' = Append(panelLog, PanelEntry(type, target, e, after))

\* a click: on the button its listener runs and stops the propagation (line
\* 262), anywhere else the click bubbles to the document's listener
Click ==
    \E target \in ClickTargets :
        /\ SetPanel("click", target, NoEvent,
                    IF target = "btn" THEN OnButtonClick(Panel)
                    ELSE OnDocumentClick(Panel, target))
        /\ UNCHANGED <<keyVars, prefVars, SITE_ROOT, resolved, brandVars>>

\* Escape, with or without Ctrl, and another key; the focus on the page, on
\* the button (line 279 puts it there) or on the panel's select
PanelKeydowns ==
    {<<e, el>> : e \in {Plain(Escape), [Plain(Escape) EXCEPT !.ctrlKey = TRUE],
                        Plain(<<"x">>)},
                 el \in {Body, Button, Select}}

\* a keydown reaches both keydown listeners of the document: the matcher's
\* (lines 75-106) and the panel's
PanelKeydown ==
    \E in \in PanelKeydowns :
        LET r == OnKeydown(in[1], in[2], Matcher, Page)
        IN  /\ SetPanel("keydown", "page", in[1], OnPanelKeydown(Panel, in[1]))
            /\ SetMatcher(r.m)
            /\ location' = r.page.location
            /\ dialog' = r.page.dialog
            /\ UNCHANGED <<readyState, log, prefVars, SITE_ROOT, resolved, brandVars>>

(***************************************************************************)
(* The matcher's specification                                             *)
(***************************************************************************)
\* the script's own URL, import.meta.url, and where its path starts
ScriptUrl == <<"h", "/", "r", "/", "s", "/", "j">>
ScriptPathStart == 2

\* nothing stored, the page loaded
PrefsQuiet ==
    /\ storage = Missing
    /\ root = applyPrefs(Missing, [scale |-> NULL, highContrast |-> FALSE])
    /\ scaleSelect = SetupScale(Missing)
    /\ contrastToggle = SetupContrast(Missing)
    /\ connected = TRUE
    /\ plog = <<>>

\* the branding fetch is in flight, nothing overridden; the panel as built
ShellQuiet ==
    /\ branding = [phase |-> "pending", outcome |-> "none", file |-> NoFile]
    /\ style = [primary |-> NULL, primaryHover |-> NULL, logoText |-> LogoText]
    /\ panelHidden = TRUE
    /\ ariaExpanded = <<"f","a","l","s","e">>
    /\ panelLog = <<>>

NavQuiet ==
    /\ SITE_ROOT = ParentOfDir(ScriptUrl, ScriptPathStart)
    /\ resolved = [href |-> <<>>, result |-> SITE_ROOT, root |-> SITE_ROOT]

KeysInit ==
    /\ pendingKey = NULL
    /\ pendingTimer = 0
    /\ timers = {}
    /\ timerSeq = 0
    /\ readyState \in {"loading", "interactive"}
    /\ dialog = (IF readyState = "loading" THEN "absent" ELSE createShortcutsDialog("absent"))
    /\ log = <<>>

Init ==
    /\ KeysInit
    /\ NavQuiet
    /\ location = SITE_ROOT
    /\ PrefsQuiet
    /\ ShellQuiet

Next == Keydown \/ Timeout \/ DOMContentLoaded \/ DialogClose

Spec == Init /\ [][Next]_vars

\* The matcher with the host's promise that a timeout that stays due is run:
\* the keydowns stop one turn short of the recorded turns, so that the expiry
\* of a Pending state can always be recorded.
LiveKeydown == Len(log) < MaxTurns - 1 /\ Keydown

NextLive == LiveKeydown \/ Timeout

SpecLive == Init /\ [][NextLive]_vars /\ WF_vars(Timeout)

(***************************************************************************)
(* The preferences' specification                                          *)
(***************************************************************************)
KeysQuiet ==
    /\ pendingKey = NULL
    /\ pendingTimer = 0
    /\ timers = {}
    /\ timerSeq = 0
    /\ readyState = "interactive"
    /\ dialog = createShortcutsDialog("absent")
    /\ log = <<>>

InitPrefs ==
    /\ KeysQuiet
    /\ NavQuiet
    /\ location = SITE_ROOT
    /\ storage \in StoredTexts
    /\ root \in RootStates
    /\ scaleSelect = DEFAULT
    /\ contrastToggle = FALSE
    /\ connected = FALSE
    /\ plog = <<>>
    /\ ShellQuiet

NextPrefs == PageLoad \/ ChangeScale \/ ChangeContrast \/ CallSave \/ CallLoad \/ CallApply

SpecPrefs == InitPrefs /\ [][NextPrefs]_vars

(***************************************************************************)
(* The resolver's specification                                            *)
(***************************************************************************)
\* where shell.js may be served from: [url, pathStart]
ScriptUrls ==
    {[url |-> <<"h", "/", "s", "/", "j">>, pathStart |-> 2],
     [url |-> <<"h", "/", "r", "/", "s", "/", "j">>, pathStart |-> 2],
     [url |-> <<"h", "/", "j">>, pathStart |-> 2],
     [url |-> <<"f", ":", "/", "/", "/", "d", "/", "s", "/", "j">>, pathStart |-> 5]}

RECURSIVE SeqsUpTo(_, _)
SeqsUpTo(S, n) ==
    IF n = 0 THEN {<<>>}
    ELSE LET shorter == SeqsUpTo(S, n - 1)
         IN  shorter \cup {Append(q, c) : q \in shorter, c \in S}

\* the logical paths given to resolveHref
Hrefs ==
    SeqsUpTo({"/", "e", "x"}, MaxPathLen) \cup {NAV_ITEMS[i].href : i \in 1..Len(NAV_ITEMS)}

\* lines 166, 179: a link is rendered
Resolve ==
    \E href \in Hrefs :
        /\ resolved' = [href |-> href, result |-> resolveHref(href), root |-> SITE_ROOT]
        /\ UNCHANGED <<keyVars, prefVars, SITE_ROOT, brandVars, panelVars>>

\* line 49: a shortcut navigates
Navigate ==
    \E id \in {"home", "example-tool", "settings"} :
        /\ location' = navigateTo(id, location)
        /\ location' # location
        /\ UNCHANGED <<pendingKey, pendingTimer, timers, timerSeq, dialog, readyState,
                       log, prefVars, SITE_ROOT, brandVars, panelVars, resolved>>

InitNav ==
    /\ KeysQuiet
    /\ PrefsQuiet
    /\ ShellQuiet
    /\ \E u \in ScriptUrls : SITE_ROOT = ParentOfDir(u.url, u.pathStart)
    /\ location = SITE_ROOT
    /\ resolved = [href |-> <<>>, result |-> SITE_ROOT, root |-> SITE_ROOT]

NextNav == Resolve \/ Navigate

SpecNav == InitNav /\ [][NextNav]_vars

(***************************************************************************)
(* The branding loader's specification: the fetch races keys and changes   *)
(***************************************************************************)
InitBrand ==
    /\ KeysQuiet
    /\ NavQuiet
    /\ location = SITE_ROOT
    /\ PrefsQuiet
    /\ branding = [phase |-> "pending", outcome |-> "none", file |-> NoFile]
    /\ style \in {[primary |-> NULL, primaryHover |-> NULL, logoText |-> t] :
                    t \in {LogoText, NULL}}
    /\ panelHidden = TRUE
    /\ ariaExpanded = <<"f","a","l","s","e">>
    /\ panelLog = <<>>

RacingEvent ==
    /\ Len(log) + Len(plog) < MaxRacing
    /\ \/ \E in \in BrandKeydowns : KeydownTurn(in)
       \/ Timeout
       \/ ChangeScale
       \/ ChangeContrast

NextBrand == FetchSettles \/ JsonSettles \/ RacingEvent

SpecBrand == InitBrand /\ [][NextBrand]_vars

(***************************************************************************)
(* The preferences panel's specification                                   *)
(***************************************************************************)
InitPanel ==
    /\ KeysQuiet
    /\ NavQuiet
    /\ location = SITE_ROOT
    /\ PrefsQuiet
    /\ ShellQuiet

NextPanel == Click \/ PanelKeydown

SpecPanel == InitPanel /\ [][NextPanel]_vars

(***************************************************************************)
(* Properties of the matcher, read off the log                             *)
(***************************************************************************)
TextEntryControls == {Input, Textarea, Select, Editable}

CtrlMetaAlt(en) == en.e.ctrlKey \/ en.e.metaKey \/ en.e.altKey

\* a qualifying keydown: no Ctrl, Meta or Alt, focus not on a text-entry control
Qualifying(en) ==
    /\ en.type = "keydown"
    /\ ~CtrlMetaAlt(en)
    /\ en.el \notin TextEntryControls

\* the key token of a keydown entry
TokenOf(en) == IF en.e.key = <<"G">> THEN <<"g">> ELSE en.e.key

Idle(m) == m.pendingKey = NULL

Untouched(en) ==
    /\ ~en.defaultPrevented
    /\ en.actions = <<>>
    /\ en.after = en.before
    /\ en.dialogAfter = en.dialogBefore

\* between turns i and j: no timer expiry and no qualifying keydown
QuietBetween(i, j) ==
    \A k \in (i + 1)..(j - 1) : log[k].type # "timeout" /\ ~Qualifying(log[k])

ActionOfPair(b) == IF b = <<"h">> THEN "home" ELSE "example-tool"

\* C1: from Idle, a qualifying keydown of g and then one of h (or e), with no
\* timer expiry and no other qualifying keydown in between, dispatches that
\* pair's action exactly once, on the second event, suppresses the second
\* event's default and leaves the matcher Idle.
C1_PairDispatchesOnce ==
    \A i \in 1..Len(log) : \A j \in (i + 1)..Len(log) :
        ( /\ Qualifying(log[i]) /\ Idle(log[i].before) /\ TokenOf(log[i]) = <<"g">>
          /\ Qualifying(log[j]) /\ TokenOf(log[j]) \in {<<"h">>, <<"e">>}
          /\ QuietBetween(i, j) )
        => /\ \A k \in i..(j - 1) : log[k].actions = <<>>
           /\ log[j].actions = <<ActionOfPair(TokenOf(log[j]))>>
           /\ log[j].defaultPrevented
           /\ Idle(log[j].after)

\* g, a keydown with Ctrl held, then h: the pair is dispatched
C1_Witness ==
    /\ Len(log) = 3
    /\ Qualifying(log[1]) /\ TokenOf(log[1]) = <<"g">>
    /\ log[2].type = "keydown" /\ log[2].e.ctrlKey
    /\ Qualifying(log[3]) /\ TokenOf(log[3]) = <<"h">>
    /\ log[3].actions = <<"home">>

\* C2: from Idle, a qualifying g, then the 800 ms expiry, then a qualifying h
\* or e dispatch nothing over the three steps, suppress neither keydown and
\* end Idle.
C2_ExpiredPrefixDispatchesNothing ==
    \A i \in 1..Len(log) : \A t \in (i + 1)..Len(log) : \A j \in (t + 1)..Len(log) :
        ( /\ Qualifying(log[i]) /\ Idle(log[i].before) /\ TokenOf(log[i]) = <<"g">>
          /\ log[t].type = "timeout"
          /\ Qualifying(log[j]) /\ TokenOf(log[j]) \in {<<"h">>, <<"e">>}
          /\ QuietBetween(i, t) /\ QuietBetween(t, j) )
        => /\ \A k \in i..j : log[k].actions = <<>>
           /\ ~log[i].defaultPrevented
           /\ ~log[j].defaultPrevented
           /\ Idle(log[j].after)

C2_Witness ==
    /\ Len(log) = 3
    /\ Qualifying(log[1]) /\ TokenOf(log[1]) = <<"g">>
    /\ log[1].after.timers = {[id |-> 1, delay |-> PendingTimeoutMs]}
    /\ log[2].type = "timeout"
    /\ Qualifying(log[3]) /\ TokenOf(log[3]) = <<"h">>

\* a registered pair: g h, g e
RegisteredPair(a, b) == a = <<"g">> /\ b \in {<<"h">>, <<"e">>}

\* C3 as stated: an unregistered single token, or an unregistered pair of
\* tokens, fed from Idle as qualifying keydowns dispatches no action and
\* leaves the matcher Idle.
C3_Original ==
    /\ \A i \in 1..Len(log) :
          (Qualifying(log[i]) /\ Idle(log[i].before) /\ TokenOf(log[i]) # <<"?">>)
          => (log[i].actions = <<>> /\ Idle(log[i].after))
    /\ \A i \in 1..(Len(log) - 1) :
          ( /\ Qualifying(log[i]) /\ Idle(log[i].before) /\ Qualifying(log[i + 1])
            /\ ~RegisteredPair(TokenOf(log[i]), TokenOf(log[i + 1])) )
          => /\ log[i].actions = <<>>
             /\ log[i + 1].actions = <<>>
             /\ Idle(log[i + 1].after)

\* what one token of an unregistered sequence dispatches: the toggle for "?"
ExpectedOfToken(t) == IF t = <<"?">> THEN <<"toggle">> ELSE <<>>

\* the matcher after an unregistered sequence whose last token is t
ExpectedAfter(t, m) ==
    IF t = <<"g">> THEN m.pendingKey = <<"g">> ELSE Idle(m)

\* C3 (amended): an unregistered single token or pair fed from Idle as
\* qualifying keydowns dispatches no navigation; a token dispatches the
\* dialog toggle exactly if it is "?"; the matcher ends Idle unless the last
\* token is the prefix g, and then it ends Pending on g.
C3_UnregisteredSequences ==
    /\ \A i \in 1..Len(log) :
          (Qualifying(log[i]) /\ Idle(log[i].before))
          => /\ log[i].actions = ExpectedOfToken(TokenOf(log[i]))
             /\ ExpectedAfter(TokenOf(log[i]), log[i].after)
    /\ \A i \in 1..(Len(log) - 1) :
          ( /\ Qualifying(log[i]) /\ Idle(log[i].before) /\ Qualifying(log[i + 1])
            /\ ~RegisteredPair(TokenOf(log[i]), TokenOf(log[i + 1])) )
          => /\ log[i].actions = ExpectedOfToken(TokenOf(log[i]))
             /\ log[i + 1].actions = ExpectedOfToken(TokenOf(log[i + 1]))
             /\ ExpectedAfter(TokenOf(log[i + 1]), log[i + 1].after)

\* g g leaves the matcher Pending on the second g; the x that follows ends Idle
C3_Witness ==
    /\ Len(log) = 3
    /\ \A i \in 1..3 : Qualifying(log[i])
    /\ TokenOf(log[1]) = <<"g">> /\ TokenOf(log[2]) = <<"g">>
    /\ TokenOf(log[3]) = <<"x">>
    /\ ~Idle(log[2].after)
    /\ Idle(log[3].after)

\* C4: a qualifying "?" with no pending prefix dispatches the dialog toggle
\* whether the dialog is open or closed, and two such toggles in a row return
\* the dialog to the state it had before the first.
C4_ToggleTwiceRestores ==
    /\ \A i \in 1..Len(log) :
          (Qualifying(log[i]) /\ Idle(log[i].before) /\ TokenOf(log[i]) = <<"?">>)
          => /\ log[i].actions = <<"toggle">>
             /\ log[i].defaultPrevented
             /\ (log[i].dialogBefore = "open" => log[i].dialogAfter = "closed")
             /\ (log[i].dialogBefore = "closed" => log[i].dialogAfter = "open")
    /\ \A i \in 1..(Len(log) - 1) :
          ( /\ Qualifying(log[i]) /\ Idle(log[i].before) /\ TokenOf(log[i]) = <<"?">>
            /\ Qualifying(log[i + 1]) /\ TokenOf(log[i + 1]) = <<"?">> )
          => log[i + 1].dialogAfter = log[i].dialogBefore

\* three toggles in a row from a closed dialog: open, closed, open
C4_Witness ==
    /\ Len(log) = 3
    /\ \A i \in 1..3 : Qualifying(log[i]) /\ TokenOf(log[i]) = <<"?">>
    /\ log[1].dialogBefore = "closed"
    /\ log[2].dialogBefore = "open"
    /\ dialog = "open"

\* C5: a keydown while focus is on an input, textarea, select or
\* contenteditable element suppresses nothing, dispatches nothing and leaves
\* the pending token, the timer handle and the outstanding timer as they were.
C5_TextFocusUntouched ==
    \A i \in 1..Len(log) :
        (log[i].type = "keydown" /\ log[i].el \in TextEntryControls)
        => Untouched(log[i])

\* Pending on g, then h typed into a select and into a contenteditable element
C5_Witness ==
    \E i, j \in 1..Len(log) :
        /\ log[i].type = "keydown" /\ log[i].el = Select
        /\ log[i].e.key = <<"e">> /\ log[i].before.pendingKey = <<"g">>
        /\ log[i].before.timers # {}
        /\ log[j].type = "keydown" /\ log[j].el = Editable
        /\ log[j].e.key = <<"h">> /\ log[j].before.pendingKey = <<"g">>

AnyModifier(en) == CtrlMetaAlt(en) \/ en.e.shiftKey

\* C6 as stated: a keydown with any modifier key held (Shift is one) is never
\* intercepted.
C6_Original ==
    \A i \in 1..Len(log) :
        (log[i].type = "keydown" /\ AnyModifier(log[i])) => Untouched(log[i])

\* C6 (amended): a keydown with Ctrl, Meta or Alt held dispatches nothing, is
\* not suppressed and leaves the pending token and timer unchanged, in Idle
\* and in Pending; Shift alone does not disqualify a keydown.
C6_CtrlMetaAltUntouched ==
    \A i \in 1..Len(log) :
        (log[i].type = "keydown" /\ CtrlMetaAlt(log[i])) => Untouched(log[i])

\* Pending on g, then Alt+h; and Meta+? in Idle
C6_Witness ==
    \E i, j \in 1..Len(log) :
        /\ log[i].type = "keydown" /\ log[i].e.altKey
        /\ log[i].e.key = <<"h">> /\ log[i].before.pendingKey = <<"g">>
        /\ log[j].type = "keydown" /\ log[j].e.metaKey
        /\ log[j].e.key = <<"?">> /\ Idle(log[j].before)

(***************************************************************************)
(* Properties of the preferences, read off the log                         *)
(***************************************************************************)
EmptyRecord == Obj(Absent, Absent)

\* the stored text is a JSON object
IsObjectText(text) == text.kind = "json" /\ text.v.t = "object"

\* the value a stored record holds for a field, Absent if it holds none
StoredField(text, name) ==
    IF IsObjectText(text) THEN text.v.f[name] ELSE Absent

\* C7: load() never throws and returns the empty record whenever the stored
\* value is missing, undecodable or not a JSON object.
C7_Original ==
    \A i \in 1..Len(plog) :
        plog[i].op = "load"
        => /\ ~plog[i].threw
           /\ (~IsObjectText(plog[i].storageBefore) => plog[i].result = EmptyRecord)

\* C8: save(r) followed by load() returns r field for field (absent fields
\* stay absent), and a control change, which loads, sets one field and saves,
\* leaves the stored value of the other field as it was.
C8_RoundTripAndReadModifyWrite ==
    /\ \A i \in 1..(Len(plog) - 1) :
          (plog[i].op = "save" /\ plog[i + 1].op = "load")
          => /\ plog[i + 1].result.t = "object"
             /\ \A name \in {"textScale", "highContrast"} :
                   plog[i + 1].result.f[name] = plog[i].result.f[name]
    /\ \A i \in 1..Len(plog) :
          /\ plog[i].op = "changeScale"
             => StoredField(plog[i].storageAfter, "highContrast")
                = StoredField(plog[i].storageBefore, "highContrast")
          /\ plog[i].op = "changeContrast"
             => StoredField(plog[i].storageAfter, "textScale")
                = StoredField(plog[i].storageBefore, "textScale")

\* save({textScale: "large"}), load(), then the checkbox is ticked
C8_Witness ==
    /\ Len(plog) = 4
    /\ plog[2].op = "save" /\ plog[2].result = Obj(Str(LARGE), Absent)
    /\ plog[3].op = "load" /\ plog[3].result = Obj(Str(LARGE), Absent)
    /\ plog[4].op = "changeContrast" /\ ~plog[4].threw
    /\ storage = JsonOf(Obj(Str(LARGE), Bool(TRUE)))

\* C9: apply() called twice with no save() in between leaves the root's scale
\* marker and high-contrast class the same after the second call as after the
\* first, for every stored text and every prior root.
C9_ApplyIdempotent ==
    \A i \in 1..(Len(plog) - 1) :
        (plog[i].op \in {"pageLoad", "apply"} /\ plog[i + 1].op = "apply")
        => plog[i + 1].rootAfter = plog[i].rootAfter

\* the first apply changed both markers, the second and third changed nothing
C9_Witness ==
    /\ Len(plog) = 3
    /\ plog[1].op = "pageLoad" /\ plog[2].op = "apply" /\ plog[3].op = "apply"
    /\ plog[1].rootBefore = [scale |-> NULL, highContrast |-> FALSE]
    /\ plog[1].rootAfter = [scale |-> LARGER, highContrast |-> TRUE]
    /\ root = plog[1].rootAfter

(***************************************************************************)
(* Properties of the resolver                                              *)
(***************************************************************************)
\* C10: resolve("/") is the site root exactly; any other path is the root
\* followed by the path less its one leading slash (a path without one is
\* appended as it is); the root is the same at every call.
C10_ResolveFromFixedRoot ==
    /\ resolved.root = SITE_ROOT
    /\ resolved.href = <<"/">> => resolved.result = SITE_ROOT
    /\ (resolved.href # <<"/">> /\ resolved.href # <<>> /\ resolved.href[1] = "/")
       => resolved.result
          = SITE_ROOT \o SubSeq(resolved.href, 2, Len(resolved.href))
    /\ (resolved.href = <<>> \/ (resolved.href # <<>> /\ resolved.href[1] # "/"))
       => resolved.result = SITE_ROOT \o resolved.href

\* resolve("/example-tool/") under a GitHub Pages subpath
C10_Witness ==
    /\ SITE_ROOT = <<"h", "/", "r", "/">>
    /\ resolved.href = NAV_ITEMS[2].href
    /\ resolved.result
       = <<"h","/","r","/","e","x","a","m","p","l","e","-","t","o","o","l","/">>

(***************************************************************************)
(* Properties of the matcher, continued                                    *)
(***************************************************************************)
\* C11: a toggle dispatched while the dialog element is not in the document
\* is a no-op: no dialog state is created or changed, the event is handled
\* as any other toggle (suppressed, one action) and the matcher ends Idle
\* with no timer outstanding.
C11_ToggleWithoutDialog ==
    \A i \in 1..Len(log) :
        (log[i].actions = <<"toggle">> /\ log[i].dialogBefore = "absent")
        => /\ log[i].dialogAfter = "absent"
           /\ log[i].defaultPrevented
           /\ Idle(log[i].after)
           /\ log[i].after.timers = {}

\* "?" before DOMContentLoaded, from Idle and with g pending
C11_Witness ==
    /\ Len(log) = 3
    /\ readyState = "loading"
    /\ dialog = "absent"
    /\ log[1].actions = <<"toggle">> /\ Idle(log[1].before)
    /\ TokenOf(log[2]) = <<"g">> /\ ~Idle(log[2].after)
    /\ log[3].actions = <<"toggle">> /\ ~Idle(log[3].before)

(***************************************************************************)
(* Properties of the branding loader                                       *)
(***************************************************************************)
\* a turn of loadBranding
BrandingStep == branding' # branding

\* the turn read a JSON object out of branding.json
BrandingSuccess == branding'.phase = "done" /\ branding'.file.kind = "object"

\* neither the matcher nor the preferences are touched
BrandingFrame ==
    /\ UNCHANGED <<pendingKey, pendingTimer, timers>>
    /\ UNCHANGED <<storage, root>>

\* field v overrides the presentation value: old before, new after
Overrides(v, old, new) == new = JsString(v)

\* C12 as stated: on success each of appName, primaryColor, primaryHoverColor
\* overrides its variable exactly if it is present; on failure nothing
\* changes; the matcher and the preference record are left alone.
C12_Original ==
    [][BrandingStep =>
        /\ BrandingFrame
        /\ ~BrandingSuccess => style' = style
        /\ BrandingSuccess =>
            LET f == branding'.file
            IN  /\ IF f.primaryColor # Absent
                   THEN Overrides(f.primaryColor, style.primary, style'.primary)
                   ELSE style'.primary = style.primary
                /\ IF f.primaryHoverColor # Absent
                   THEN Overrides(f.primaryHoverColor, style.primaryHover, style'.primaryHover)
                   ELSE style'.primaryHover = style.primaryHover
                /\ IF f.appName # Absent
                   THEN Overrides(f.appName, style.logoText, style'.logoText)
                   ELSE style'.logoText = style.logoText
    ]_vars

\* C12 (amended): on a network error, a non-success response, invalid JSON or
\* a null body nothing changes; on success a field overrides its variable
\* exactly if it is present and not empty (truthy), appName only where the
\* header's logo text exists; whenever the fetch settles, the matcher and
\* the preference record are left as they were.
C12_BrandingAppliesTruthyFields ==
    [][BrandingStep =>
        /\ BrandingFrame
        /\ ~BrandingSuccess => style' = style
        /\ BrandingSuccess =>
            LET f == branding'.file
            IN  /\ IF f.primaryColor # Absent /\ f.primaryColor # Str(<<>>)
                   THEN Overrides(f.primaryColor, style.primary, style'.primary)
                   ELSE style'.primary = style.primary
                /\ IF f.primaryHoverColor # Absent /\ f.primaryHoverColor # Str(<<>>)
                   THEN Overrides(f.primaryHoverColor, style.primaryHover, style'.primaryHover)
                   ELSE style'.primaryHover = style.primaryHover
                /\ IF f.appName # Absent /\ f.appName # Str(<<>>) /\ style.logoText # NULL
                   THEN Overrides(f.appName, style.logoText, style'.logoText)
                   ELSE style'.logoText = style.logoText
    ]_vars

\* the body {appName: "", primaryColor: "#a"} arrived while g was pending and
\* after a preference was changed: the colour is set, the logo text is not
C12_Witness ==
    /\ branding.phase = "done"
    /\ branding.file = BrandingFile("object", Str(<<>>), Str(ColorA), Absent)
    /\ style = [primary |-> ColorA, primaryHover |-> NULL, logoText |-> LogoText]
    /\ pendingKey = <<"g">>
    /\ timers # {}
    /\ storage # Missing

(***************************************************************************)
(* Properties of the expiry timer                                          *)
(***************************************************************************)
\* the one timer of matcher state m, started for its pending token
OwnTimer(m) == {[id |-> m.pendingTimer, delay |-> PendingTimeoutMs]}

\* C13: at most one expiry timer is outstanding, and one is outstanding
\* exactly when the matcher is Pending; so an expiry callback only ever runs
\* while the matcher is Pending, and the timer that fires is the one started
\* for the token it clears.
C13_OneTimerIffPending ==
    /\ Cardinality(timers) <= 1
    /\ (timers # {}) <=> (pendingKey # NULL)
    /\ pendingKey # NULL => timers = OwnTimer(Matcher)
    /\ \A i \in 1..Len(log) :
        log[i].type = "timeout" =>
            /\ ~Idle(log[i].before)
            /\ log[i].before.timers = OwnTimer(log[i].before)
            /\ Idle(log[i].after)
            /\ log[i].after.timers = {}

\* g, then g again (a failed pair that starts a second Pending state with a
\* second timer), then the expiry of that second timer
C13_Witness ==
    /\ Len(log) = 3
    /\ Qualifying(log[1]) /\ Qualifying(log[2])
    /\ log[1].after.pendingTimer = 1
    /\ log[2].before.pendingKey = <<"g">>
    /\ log[2].after.pendingKey = <<"g">>
    /\ log[2].after.pendingTimer = 2
    /\ log[3].type = "timeout"
    /\ timers = {}

\* C14: the matcher never stays Pending forever: with the host running due
\* timeouts, every Pending state is followed by an Idle one, whether no
\* further keydown arrives or keydowns that do not qualify (modifier held,
\* focus in a text-entry control) arrive.
C14_PendingLeadsToIdle == (pendingKey # NULL) ~> (pendingKey = NULL)

\* g, then Ctrl+g or a keydown in a text-entry control (ignored, still
\* Pending), then the expiry
C14_Witness ==
    /\ Len(log) = 3
    /\ Qualifying(log[1]) /\ ~Idle(log[1].after)
    /\ log[2].type = "keydown" /\ ~Qualifying(log[2]) /\ ~Idle(log[2].after)
    /\ log[3].type = "timeout"
    /\ pendingKey = NULL

(***************************************************************************)
(* Properties of the matcher, suppression and fall-through                 *)
(***************************************************************************)
\* the keydown completes a registered pair, or is a registered single token
Matches(en) ==
    \/ ~Idle(en.before) /\ RegisteredPair(en.before.pendingKey, TokenOf(en))
    \/ TokenOf(en) = <<"?">>

\* C15: a keydown suppresses the browser default exactly when it dispatches
\* an action, and it dispatches at most one: a keydown that only enters
\* Pending or matches nothing is not suppressed, one that completes a
\* registered pair or is a registered single token is.
C15_SuppressedIffDispatched ==
    \A i \in 1..Len(log) :
        LET en == log[i]
        IN  /\ en.defaultPrevented <=> (en.actions # <<>>)
            /\ Len(en.actions) <= 1
            /\ en.type = "keydown" =>
                en.defaultPrevented <=> (Qualifying(en) /\ Matches(en))

\* g (enters Pending, not suppressed), then h (completes the pair,
\* suppressed), then x (matches nothing, not suppressed)
C15_Witness ==
    /\ Len(log) = 3
    /\ \A i \in 1..3 : Qualifying(log[i])
    /\ TokenOf(log[1]) = <<"g">> /\ ~Idle(log[1].after) /\ ~log[1].defaultPrevented
    /\ TokenOf(log[2]) = <<"h">> /\ log[2].actions = <<"home">> /\ log[2].defaultPrevented
    /\ TokenOf(log[3]) = <<"x">> /\ log[3].actions = <<>> /\ ~log[3].defaultPrevented

\* a qualifying keydown that arrives in Pending and does not complete a
\* registered pair
FailedPair(en) ==
    /\ Qualifying(en)
    /\ ~Idle(en.before)
    /\ ~RegisteredPair(en.before.pendingKey, TokenOf(en))

\* matcher state m with its token discarded and its timer cancelled
IdleOf(m) == [m EXCEPT !.pendingKey = NULL, !.timers = {}]

\* C16: a qualifying keydown of k that arrives in Pending on T, "T k" not
\* registered, is handled as the same keydown is handled from Idle: same
\* dispatched action, same suppression, same resulting matcher state (and
\* the same dialog).
C16_FailedPairAsFromIdle ==
    \A i \in 1..Len(log) :
        FailedPair(log[i]) =>
            LET en   == log[i]
                idle == OnKeydown(en.e, en.el, IdleOf(en.before),
                                  [location |-> location, dialog |-> en.dialogBefore])
            IN  /\ en.actions = idle.actions
                /\ en.defaultPrevented = idle.defaultPrevented
                /\ en.after = idle.m
                /\ en.dialogAfter = idle.page.dialog

\* g and then ?: the pair "g ?" is not registered, ? toggles the dialog
C16_Witness ==
    /\ Len(log) = 2
    /\ FailedPair(log[2])
    /\ log[2].before.pendingKey = <<"g">>
    /\ TokenOf(log[2]) = <<"?">>
    /\ log[2].actions = <<"toggle">>
    /\ log[2].dialogBefore = "closed" /\ dialog = "open"

\* C17 as stated: after a failed two-token attempt the second token is only
\* tried as a single-key shortcut; no new Pending state starts from it, so
\* the matcher is Idle after every failed two-token attempt.
C17_Original ==
    \A i \in 1..Len(log) : FailedPair(log[i]) => Idle(log[i].after)

\* C17 (amended): after a failed two-token attempt the second token is tried
\* as a single-key shortcut and then, as from Idle, as a prefix: the matcher
\* ends Pending on the second token, with a new timer, exactly if that token
\* is the prefix g, and is Idle otherwise; the token dispatches the dialog
\* toggle exactly if it is "?", and nothing else.
C17_FailedPairRechecksPrefix ==
    \A i \in 1..Len(log) :
        FailedPair(log[i]) =>
            LET en == log[i]
            IN  /\ en.actions = ExpectedOfToken(TokenOf(en))
                /\ IF TokenOf(en) = <<"g">>
                   THEN /\ en.after.pendingKey = <<"g">>
                        /\ en.after.pendingTimer # en.before.pendingTimer
                        /\ en.after.timers = OwnTimer(en.after)
                   ELSE Idle(en.after) /\ en.after.timers = {}

\* g, g (failed pair, Pending again on the second g), then h: "g h" fires
C17_Witness ==
    /\ Len(log) = 3
    /\ TokenOf(log[1]) = <<"g">> /\ Qualifying(log[1])
    /\ FailedPair(log[2]) /\ TokenOf(log[2]) = <<"g">>
    /\ log[2].after.pendingKey = <<"g">>
    /\ Qualifying(log[3]) /\ TokenOf(log[3]) = <<"h">>
    /\ log[3].actions = <<"home">>

(***************************************************************************)
(* Properties of the preference controls                                   *)
(***************************************************************************)
\* the root presentation state r is the projection of the stored record
RootMatches(text, r) ==
    LET ts == StoredField(text, "textScale")
        hc == StoredField(text, "highContrast")
    IN  /\ r.scale = (IF ts # Absent /\ ts # Str(DEFAULT) THEN JsString(ts) ELSE NULL)
        /\ r.highContrast = truthy(hc)

ChangedField(op) == IF op = "changeScale" THEN "textScale" ELSE "highContrast"

\* C18 as stated: from any stored content, after page load and after every
\* control change the stored record holds the value chosen last for the
\* changed field and the root matches the stored record; no change event
\* raises an error.
C18_Original ==
    \A i \in 1..Len(plog) :
        /\ plog[i].op = "pageLoad" =>
              RootMatches(plog[i].storageAfter, plog[i].rootAfter)
        /\ plog[i].op \in {"changeScale", "changeContrast"} =>
              /\ ~plog[i].threw
              /\ StoredField(plog[i].storageAfter, ChangedField(plog[i].op)) = plog[i].arg
              /\ RootMatches(plog[i].storageAfter, plog[i].rootAfter)

\* the same, for stored content that loadPrefs turns into an object: missing,
\* undecodable, null or a JSON object
C18_FromObjectContent ==
    \A i \in 1..Len(plog) :
        (plog[i].storageBefore \in {Missing, Garbage, JsonOf(JsNull)}
         \/ IsObjectText(plog[i].storageBefore))
        => /\ plog[i].op = "pageLoad" =>
                 RootMatches(plog[i].storageAfter, plog[i].rootAfter)
           /\ plog[i].op \in {"changeScale", "changeContrast"} =>
                 /\ ~plog[i].threw
                 /\ StoredField(plog[i].storageAfter, ChangedField(plog[i].op)) = plog[i].arg
                 /\ RootMatches(plog[i].storageAfter, plog[i].rootAfter)

(***************************************************************************)
(* Properties of the preferences panel                                     *)
(***************************************************************************)
OutsideClick(en) == en.type = "click" /\ en.target = "page"

EscapeKeydown(en) == en.type = "keydown" /\ en.e.key = Escape

\* C19: after any sequence of button clicks, outside clicks and Escape
\* keydowns the button's aria-expanded is "true" exactly when the panel is
\* not hidden; a button click always flips the panel's visibility; an
\* outside click or Escape closes the panel or leaves it closed.
C19_AriaMatchesPanel ==
    /\ ariaExpanded \in {<<"t","r","u","e">>, <<"f","a","l","s","e">>}
    /\ (ariaExpanded = <<"t","r","u","e">>) <=> ~panelHidden
    /\ \A i \in 1..Len(panelLog) :
        LET en == panelLog[i]
        IN  /\ (en.ariaAfter = <<"t","r","u","e">>) <=> ~en.hiddenAfter
            /\ (en.type = "click" /\ en.target = "btn")
                  => en.hiddenAfter = ~en.hiddenBefore
            /\ (OutsideClick(en) \/ EscapeKeydown(en)) => en.hiddenAfter

\* the button opens the panel, Escape closes it, the button opens it again
C19_Witness ==
    /\ Len(panelLog) = 3
    /\ panelLog[1].type = "click" /\ panelLog[1].target = "btn"
    /\ panelLog[1].hiddenBefore /\ ~panelLog[1].hiddenAfter
    /\ EscapeKeydown(panelLog[2])
    /\ ~panelLog[2].hiddenBefore /\ panelLog[2].hiddenAfter
    /\ panelLog[3].type = "click" /\ panelLog[3].target = "btn"
    /\ ~panelHidden
    /\ ariaExpanded = <<"t","r","u","e">>

====
